---- MODULE Spec2Model ----
(***************************************************************************)
(* Model of the notebooks' own logic: the two to_csv row formatters, the   *)
(* hash-based splits and samples written in SQL, create_query, and the two *)
(* preprocess functions with the cells around them.                        *)
(*                                                                         *)
(* Python and SQL text is modelled character by character: a string is a   *)
(* sequence of one-character strings, so joining, splitting and str() are  *)
(* computed and not assumed.  A Python value is a record [t, n, s]: t its  *)
(* type, n its number (a float is held in tenths), s its characters.       *)
(***************************************************************************)
EXTENDS Integers, Sequences, FiniteSets, TLC

VARIABLES
    heap,       \* Python objects: reference -> dictionary (column -> value)
    rowdict,    \* reference of the element handed to to_csv, 0 when none
    arg,        \* the row as the reader produced it
    kind,       \* which notebook's to_csv the element belongs to
    calls,      \* how many times to_csv ran on the element
    result,     \* [lines, err] of the last to_csv call
    first,      \* [lines, err] of the first to_csv call on the element
    dataset,    \* which source table the split queries read: "natality" or "taxi"
    table,      \* the rows of that table
    fp,         \* FARM_FINGERPRINT, as far as it has been computed: string -> INT64
    prev,       \* the run before the last one
    last,       \* the last run of a split query: its parameters and the rows per set
    localDir,   \* ./preproc: whether it exists, and the files in it
    gcsNat,     \* the objects under gs://BUCKET/babyweight/preproc/
    gcsTaxi,    \* the objects under gs://BUCKET/taxifare/ch4/taxi_preproc/
    datasets,   \* the BigQuery datasets of the project
    pipeline,   \* the stages the last preprocess call built, per split
    job,        \* the Beam job the last preprocess call started
    call        \* the last cell that ran: what failed in it, what it raised and printed

csvVars == <<heap, rowdict, arg, kind, calls, result, first>>
splitVars == <<dataset, table, fp, prev, last>>
cellVars == <<localDir, gcsNat, gcsTaxi, datasets, pipeline, job, call>>

\* ------------------------------------------------------------------ bounds

PluralityRange == 7     \* plurality is drawn from -PluralityRange..PluralityRange
MaxCalls == 2           \* to_csv runs on one element at most this often
MaxTableRows == 2       \* rows in the source table
LimitRows == 1          \* the LIMIT of the test-mode query, scaled to the table
MaxSampleSize == 3      \* sample sizes are the texts of 1..MaxSampleSize and a product
WindowBases == 12       \* windows of consecutive hash values start at 0..WindowBases

\* ----------------------------------------------------------- Python values

IntV(n) == [t |-> "int", n |-> n, s |-> <<>>]
FloatV(tenths) == [t |-> "float", n |-> tenths, s |-> <<>>]
BoolV(b) == [t |-> "bool", n |-> IF b THEN 1 ELSE 0, s |-> <<>>]
StrV(chars) == [t |-> "str", n |-> 0, s |-> chars]
NoneV == [t |-> "none", n |-> 0, s |-> <<>>]

Digits == <<"0", "1", "2", "3", "4", "5", "6", "7", "8", "9">>

RECURSIVE StrNat(_)
StrNat(n) == IF n < 10 THEN <<Digits[n + 1]>>
             ELSE StrNat(n \div 10) \o <<Digits[(n % 10) + 1]>>

Abs(n) == IF n < 0 THEN -n ELSE n

\* str() of an int
StrInt(n) == IF n < 0 THEN <<"-">> \o StrNat(-n) ELSE StrNat(n)

\* str() of a float with one decimal digit
StrFloat(tenths) ==
    (IF tenths < 0 THEN <<"-">> ELSE <<>>)
        \o StrNat(Abs(tenths) \div 10) \o <<".">> \o <<Digits[(Abs(tenths) % 10) + 1]>>

\* Python's str(v)
Str(v) ==
    CASE v.t = "int" -> StrInt(v.n)
      [] v.t = "float" -> StrFloat(v.n)
      [] v.t = "bool" -> IF v.n = 1 THEN <<"T", "r", "u", "e">>
                         ELSE <<"F", "a", "l", "s", "e">>
      [] v.t = "str" -> v.s
      [] OTHER -> <<"N", "o", "n", "e">>

\* sep.join(parts)
RECURSIVE Join(_, _)
Join(parts, sep) ==
    IF parts = <<>> THEN <<>>
    ELSE IF Len(parts) = 1 THEN parts[1]
    ELSE parts[1] \o sep \o Join(Tail(parts), sep)

\* line.split(sep), sep one character
RECURSIVE SplitFrom(_, _, _, _)
SplitFrom(line, sep, i, cur) ==
    IF i > Len(line) THEN <<cur>>
    ELSE IF line[i] = sep THEN <<cur>> \o SplitFrom(line, sep, i + 1, <<>>)
    ELSE SplitFrom(line, sep, i + 1, Append(cur, line[i]))

Split(line, sep) == SplitFrom(line, sep, 1, <<>>)

\* seq[i] of a Python list: negative indexes count from the end
InIndexRange(seq, i) == i >= -Len(seq) /\ i < Len(seq)
PyIndex(seq, i) == IF i >= 0 THEN seq[i + 1] ELSE seq[Len(seq) + i + 1]

\* --------------------------------------------------------- the Python heap

Max(S) == CHOOSE m \in S : \A x \in S : x <= m

\* the reference a new object gets
NewRef(h) == Max(DOMAIN h) + 1

\* an assignment without a copy: both names refer to one dictionary
aliasCopy(h, r) == [ref |-> r, heap |-> h]

\* copy.deepcopy(h[r]): a new dictionary with the same items (values are scalars)
deepcopy(h, r) == [ref |-> NewRef(h), heap |-> h @@ (NewRef(h) :> h[r])]

\* d[k] = v on the dictionary at r
SetItem(h, r, k, v) == [h EXCEPT ![r] = (k :> v) @@ h[r]]

\* ------------------------------------------------------ natality to_csv

Unknown == <<"U", "n", "k", "n", "o", "w", "n">>
Multiple == <<"M", "u", "l", "t", "i", "p", "l", "e", "(", "2", "+", ")">>
Single == <<"S", "i", "n", "g", "l", "e", "(", "1", ")">>
Twins == <<"T", "w", "i", "n", "s", "(", "2", ")">>
Triplets == <<"T", "r", "i", "p", "l", "e", "t", "s", "(", "3", ")">>
Quadruplets == <<"Q", "u", "a", "d", "r", "u", "p", "l", "e", "t", "s", "(", "4", ")">>
Quintuplets == <<"Q", "u", "i", "n", "t", "u", "p", "l", "e", "t", "s", "(", "5", ")">>

PluralityNames == <<Single, Twins, Triplets, Quadruplets, Quintuplets>>

NatCsvColumns == <<"weight_pounds", "is_male", "mother_age", "plurality", "gestation_weeks">>

\* ','.join([str(result[k]) if k in result else "None" for k in CSV_COLUMNS])
NatLine(d) ==
    Join([i \in 1..Len(NatCsvColumns) |->
             IF NatCsvColumns[i] \in DOMAIN d THEN Str(d[NatCsvColumns[i]])
             ELSE <<"N", "o", "n", "e">>],
         <<",">>)

\* v > 1 for a number v
GreaterThanOne(v) == IF v.t = "float" THEN v.n > 10 ELSE v.n > 1

Raise(h, e) == [heap |-> h, lines |-> <<>>, err |-> e]

\* the lines the generator yields: the no-ultrasound one, then the ultrasound one
NatYield(h, no, w) == <<NatLine(h[no]), NatLine(h[w])>>

\* to_csv(rowdict) of the natality notebook, run to exhaustion as FlatMap does
NatToCsv(h0, row) ==
    LET c1 == deepcopy(h0, row)
        no == c1.ref
        c2 == deepcopy(c1.heap, row)
        w == c2.ref
        h1 == SetItem(c2.heap, no, "is_male", StrV(Unknown))
    IN  IF "plurality" \notin DOMAIN h1[row] THEN Raise(h1, "KeyError")
        ELSE IF h1[row]["plurality"].t \notin {"int", "float", "bool"}
            THEN Raise(h1, "TypeError")          \* rowdict["plurality"] > 1
        ELSE
        LET h2 == SetItem(h1, no, "plurality",
                          IF GreaterThanOne(h1[row]["plurality"]) THEN StrV(Multiple)
                          ELSE StrV(Single))
        IN  IF h2[row]["plurality"].t \notin {"int", "bool"}
                THEN Raise(h2, "TypeError")      \* rowdict["plurality"] - 1 as an index
            ELSE IF ~InIndexRange(PluralityNames, h2[row]["plurality"].n - 1)
                THEN Raise(h2, "IndexError")
            ELSE
            LET h3 == SetItem(h2, w, "plurality",
                              StrV(PyIndex(PluralityNames, h2[row]["plurality"].n - 1)))
            IN  [heap |-> h3, lines |-> NatYield(h3, no, w), err |-> "none"]

\* --------------------------------------------------------- taxi to_csv

\* CSV_COLUMNS with two neighbours exchanged
TaxiCsvColumnsSwapped == <<"fare_amount", "dayofweek", "hourofday", "pickuplat", "pickuplon",
                           "dropofflon", "dropofflat">>

TaxiCsvColumns == <<"fare_amount", "dayofweek", "hourofday", "pickuplon", "pickuplat",
                    "dropofflon", "dropofflat">>

\* to_csv(rowdict) of the taxi notebook: ','.join([str(rowdict[k]) for k in CSV_COLUMNS])
TaxiToCsv(h0, row) ==
    IF \E i \in 1..Len(TaxiCsvColumns) : TaxiCsvColumns[i] \notin DOMAIN h0[row]
        THEN Raise(h0, "KeyError")
    ELSE [heap |-> h0,
          lines |-> <<Join([i \in 1..Len(TaxiCsvColumns) |-> Str(h0[row][TaxiCsvColumns[i]])],
                           <<",">>)>>,
          err |-> "none"]

\* ------------------------------------------------- rows the readers produce

Without(row, col) == [k \in DOMAIN row \ {col} |-> row[k]]

\* a row of the natality query (lines 220-237): six columns
NatRow(p, male) ==
    [weight_pounds |-> FloatV(75), is_male |-> BoolV(male), mother_age |-> IntV(25),
     plurality |-> IntV(p), gestation_weeks |-> IntV(39), hashmonth |-> IntV(183)]

NatFullRows == {NatRow(p, male) : p \in -PluralityRange..PluralityRange, male \in BOOLEAN}

\* rows in which one of the columns is absent
NatPartialRows ==
    {Without(NatRow(p, TRUE), NatCsvColumns[i]) : p \in {1, 2}, i \in 1..Len(NatCsvColumns)}

NatRows == NatFullRows \cup NatPartialRows

\* a row of create_query's SELECT list: seven columns
TaxiRow(fare, dow, hour) ==
    [fare_amount |-> fare, dayofweek |-> IntV(dow), hourofday |-> IntV(hour),
     pickuplon |-> FloatV(-739), pickuplat |-> FloatV(407),
     dropofflon |-> FloatV(-740), dropofflat |-> FloatV(408)]

TaxiFullRows ==
    {TaxiRow(fare, dow, hour) : fare \in {FloatV(25), FloatV(125), NoneV},
                                dow \in {1, 7}, hour \in {0, 23}}

\* rows that carry a key outside CSV_COLUMNS
TaxiWideRows == {("passenger_count" :> IntV(9)) @@ r : r \in TaxiFullRows}

TaxiPartialRows ==
    {Without(TaxiRow(FloatV(25), 1, 0), TaxiCsvColumns[i]) : i \in 1..Len(TaxiCsvColumns)}

TaxiRows == TaxiFullRows \cup TaxiWideRows \cup TaxiPartialRows

HasColumns(row, cols) == \A i \in 1..Len(cols) : cols[i] \in DOMAIN row

\* --------------------------------------------- the map stage of a pipeline

NoResult == [lines |-> <<>>, err |-> "none"]

InitCsv ==
    /\ heap = <<>>
    /\ rowdict = 0
    /\ arg = <<>>
    /\ kind = "none"
    /\ calls = 0
    /\ result = NoResult
    /\ first = NoResult

\* the read stage hands the next element to the map stage
ReadElement(k, row) ==
    /\ heap' = (1 :> row)
    /\ rowdict' = 1
    /\ arg' = row
    /\ kind' = k
    /\ calls' = 0
    /\ result' = NoResult
    /\ first' = NoResult
    /\ UNCHANGED <<splitVars, cellVars>>

NatRead == \E row \in NatRows : ReadElement("nat", row)

TaxiRead == \E row \in TaxiRows : ReadElement("taxi", row)

\* the runner applies the function to the element (again when it retries a bundle)
Apply(r) ==
    /\ heap' = r.heap
    /\ result' = [lines |-> r.lines, err |-> r.err]
    /\ first' = IF calls = 0 THEN [lines |-> r.lines, err |-> r.err] ELSE first
    /\ calls' = calls + 1
    /\ UNCHANGED <<rowdict, arg, kind>>
    /\ UNCHANGED <<splitVars, cellVars>>

NatMap ==
    /\ kind = "nat"
    /\ calls < MaxCalls
    /\ Apply(NatToCsv(heap, rowdict))

TaxiMap ==
    /\ kind = "taxi"
    /\ calls < MaxCalls
    /\ Apply(TaxiToCsv(heap, rowdict))

NextCsv == NatRead \/ TaxiRead \/ NatMap \/ TaxiMap

\* ------------------------------------------------------------ SQL pieces

\* FARM_FINGERPRINT returns an INT64; the width is scaled to 9 bits
FpMin == -256

\* CAST(n AS STRING) of an INT64
CastString(n) == StrInt(n)

\* ABS(x) of an INT64 fails on the minimum, whose negation does not fit
AbsOverflows(x) == x = FpMin

\* MOD(x, y) for x >= 0 and y > 0
Mod(x, y) == x % y

Cardinal(S) == Cardinality(S)

Min(a, b) == IF a < b THEN a ELSE b

\* the results LIMIT n may give on a set of rows with no ORDER BY: any n of them
LimitSets(S, n) == {T \in SUBSET S : Cardinal(T) = Min(n, Cardinal(S))}

\* ----------------------------------------------- natality: hashmonth splits

\* rows of publicdata.samples.natality (id tells rows with equal columns apart)
NatTableRows ==
    {[id |-> i, year |-> y, month |-> m, weight_pounds |-> 75, mother_age |-> 25,
      plurality |-> 1, gestation_weeks |-> 39] :
        i \in {1, 2}, y \in {2000, 2001}, m \in {1, 11}}

\* the fingerprints the natality keys may have
NatFpValues == {FpMin, -91, 0, 79, 185}

\* the key with a column of the row added that is not part of the year-month
NatHashKeyWithId(r) == CastString(r.year) \o CastString(r.month) \o CastString(r.id)

\* CONCAT(CAST(YEAR AS STRING), CAST(month AS STRING))
NatHashKey(r) == CastString(r.year) \o CastString(r.month)

\* WHERE clause of the preprocessing query
NatWhere(r) ==
    /\ r.year > 2000
    /\ r.weight_pounds > 0
    /\ r.mother_age > 0
    /\ r.plurality > 0
    /\ r.gestation_weeks > 0
    /\ r.month > 0

\* WHERE clause of natality_data in the BQML notebook
BqmlWhere(r) ==
    /\ r.year > 2000
    /\ r.gestation_weeks > 0
    /\ r.mother_age > 0
    /\ r.plurality > 0
    /\ r.weight_pounds > 0

\* ABS(FARM_FINGERPRINT(...)) AS hashmonth, with fingerprints f
HashMonth(f, r) == Abs(f[NatHashKey(r)])

\* a training filter that keeps two of four residues
BqmlTrainFilterHalf(h) == Mod(h, 4) < 2

\* MOD(hashmonth, 4) < 3
BqmlTrainFilter(h) == Mod(h, 4) < 3

\* MOD(hashmonth, 100) < 80
NatTrainFilter(h) == Mod(h, 100) < 80

\* MOD(hashmonth, 100) >= 80 AND MOD(hashmonth, 100) < 90
NatEvalFilter(h) == Mod(h, 100) >= 80 /\ Mod(h, 100) < 90

\* if in_test_mode: query = query + " LIMIT 100"
NatLimited(in_test_mode) == in_test_mode

\* what the inner query of a selquery may return
NatInnerQuery(in_test_mode) ==
    IF NatLimited(in_test_mode)
    THEN LimitSets({r \in table : NatWhere(r)}, LimitRows)
    ELSE {{r \in table : NatWhere(r)}}

NoRun == [q |-> "none", test |-> FALSE, n |-> <<>>, err |-> FALSE, out |-> <<>>]

\* no fingerprint is taken as computed: every evaluation draws a fresh number
FingerprintedNone(f) == {}

\* the strings whose fingerprint is fixed already (the function is deterministic)
Fingerprinted(f) == DOMAIN f

\* the fingerprints after a query hashed the strings in keys, each new one any INT64
FingerprintsAfter(keys, values) ==
    {ext @@ fp : ext \in [keys \ Fingerprinted(fp) -> values]}

Record(run) ==
    /\ prev' = last
    /\ last' = run

InitSplit ==
    /\ dataset = "none"
    /\ table = {}
    /\ fp = <<>>
    /\ prev = NoRun
    /\ last = NoRun

\* the public table holds one more row (before any query ran)
NatInsert ==
    /\ dataset \in {"none", "natality"}
    /\ last = NoRun
    /\ Cardinal(table) < MaxTableRows
    /\ \E r \in NatTableRows \ table : table' = table \cup {r}
    /\ dataset' = "natality"
    /\ UNCHANGED <<fp, prev, last>>
    /\ UNCHANGED <<csvVars, cellVars>>

\* the training query of the BQML notebook (also the one of babyweight_model_fc)
BqmlTrainingQuery ==
    /\ dataset = "natality"
    /\ LET data == {r \in table : BqmlWhere(r)}
       IN  \E f \in FingerprintsAfter({NatHashKey(r) : r \in data}, NatFpValues) :
             /\ fp' = f
             /\ IF \E r \in data : AbsOverflows(f[NatHashKey(r)])
                THEN Record([q |-> "bqml", test |-> FALSE, n |-> <<>>, err |-> TRUE,
                             out |-> [train |-> {}, rest |-> {}]])
                ELSE Record([q |-> "bqml", test |-> FALSE, n |-> <<>>, err |-> FALSE,
                             out |-> [train |-> {r \in data : BqmlTrainFilter(HashMonth(f, r))},
                                      rest |-> {r \in data : ~BqmlTrainFilter(HashMonth(f, r))}]])
    /\ UNCHANGED <<dataset, table>>
    /\ UNCHANGED <<csvVars, cellVars>>

\* the two selquery reads of preprocess(in_test_mode)
NatPreprocessQueries ==
    /\ dataset = "natality"
    /\ \E in_test_mode \in BOOLEAN :
       \E trainIn \in NatInnerQuery(in_test_mode), evalIn \in NatInnerQuery(in_test_mode) :
       \E f \in FingerprintsAfter({NatHashKey(r) : r \in trainIn \cup evalIn}, NatFpValues) :
             /\ fp' = f
             /\ IF \E r \in trainIn \cup evalIn : AbsOverflows(f[NatHashKey(r)])
                THEN Record([q |-> "nat", test |-> in_test_mode, n |-> <<>>, err |-> TRUE,
                             out |-> [train |-> {}, eval |-> {}]])
                ELSE Record([q |-> "nat", test |-> in_test_mode, n |-> <<>>, err |-> FALSE,
                             out |-> [train |-> {r \in trainIn : NatTrainFilter(HashMonth(f, r))},
                                      eval |-> {r \in evalIn : NatEvalFilter(HashMonth(f, r))}]])
    /\ UNCHANGED <<dataset, table>>
    /\ UNCHANGED <<csvVars, cellVars>>

\* ------------------------------------------------- taxi: create_query

EVERY_N == <<"E", "V", "E", "R", "Y", "_", "N">>

\* whether pat occurs in text at position i
OccursAt(text, pat, i) ==
    /\ i + Len(pat) - 1 <= Len(text)
    /\ \A k \in 1..Len(pat) : text[i + k - 1] = pat[k]

\* text.replace(pat, rep): every occurrence, left to right
RECURSIVE ReplaceFrom(_, _, _, _)
ReplaceFrom(text, pat, rep, i) ==
    IF i > Len(text) THEN <<>>
    ELSE IF OccursAt(text, pat, i) THEN rep \o ReplaceFrom(text, pat, rep, i + Len(pat))
    ELSE <<text[i]>> \o ReplaceFrom(text, pat, rep, i + 1)

Replace(text, pat, rep) == ReplaceFrom(text, pat, rep, 1)

\* second argument of MOD in the sampling condition of basequery
SampleModulusText == EVERY_N

\* second argument of MOD in the conditions of subsample
PhaseModulusText == EVERY_N \o <<" ", "*", " ", "1", "0", "0">>

\* lower and upper limit of a phase in subsample
PhaseLowText(phase) ==
    CASE phase = "TRAIN" -> <<"(">> \o EVERY_N \o <<" ", "*", " ", "0", ")">>
      [] phase = "VALID" -> <<"(">> \o EVERY_N \o <<" ", "*", " ", "7", "0", ")">>
      [] phase = "TEST" -> <<"(">> \o EVERY_N \o <<" ", "*", " ", "8", "5", ")">>

PhaseHighText(phase) ==
    CASE phase = "TRAIN" -> <<"(">> \o EVERY_N \o <<" ", "*", " ", "7", "0", ")">>
      [] phase = "VALID" -> <<"(">> \o EVERY_N \o <<" ", "*", " ", "8", "5", ")">>
      [] phase = "TEST" -> <<"(">> \o EVERY_N \o <<" ", "*", " ", "1", "0", "0", ")">>

\* create_query(phase, sample_size): the expressions of the query that hold EVERY_N,
\* after query.replace("EVERY_N", sample_size)
create_query(phase, sample_size) ==
    [sampleModulus |-> Replace(SampleModulusText, EVERY_N, sample_size),
     phaseModulus |-> Replace(PhaseModulusText, EVERY_N, sample_size),
     low |-> Replace(PhaseLowText(phase), EVERY_N, sample_size),
     high |-> Replace(PhaseHighText(phase), EVERY_N, sample_size)]

IsDigit(c) == \E d \in 1..10 : Digits[d] = c
DigitValue(c) == (CHOOSE d \in 1..10 : Digits[d] = c) - 1

\* the value BigQuery gives a product of integer literals (blanks and the enclosing
\* parentheses carry no value)
RECURSIVE EvalFrom(_, _, _, _)
EvalFrom(text, i, acc, cur) ==
    IF i > Len(text) THEN acc * cur
    ELSE IF text[i] = "*" THEN EvalFrom(text, i + 1, acc * cur, 0)
    ELSE IF IsDigit(text[i]) THEN EvalFrom(text, i + 1, acc, cur * 10 + DigitValue(text[i]))
    ELSE EvalFrom(text, i + 1, acc, cur)

Eval(text) == EvalFrom(text, 1, 1, 0)

\* MOD(ABS(FARM_FINGERPRINT(...)), EVERY_N) = 1 on hash value h
SampleAccepts(query, h) == Mod(h, Eval(query.sampleModulus)) = 1

\* the two conditions of subsample on hash value h
PhaseAccepts(query, h) ==
    /\ Mod(h, Eval(query.phaseModulus)) >= Eval(query.low)
    /\ Mod(h, Eval(query.phaseModulus)) < Eval(query.high)

\* ------------------------------------------------------ taxi: the table

TwoDigits(n) == <<Digits[(n \div 10) + 1], Digits[(n % 10) + 1]>>

\* CAST(pickup_datetime AS STRING) of a TIMESTAMP of January 2014, on the hour
CastTimestamp(ts) ==
    <<"2", "0", "1", "4", "-", "0", "1", "-">> \o TwoDigits(ts.day) \o <<" ">> \o TwoDigits(ts.hour)
        \o <<":", "0", "0", ":", "0", "0", "+", "0", "0">>

\* rows of nyc-tlc.yellow.trips (amounts and coordinates in tenths)
TaxiTableRows ==
    {[id |-> i, pickup_datetime |-> [day |-> 1, hour |-> h], passenger_count |-> c,
      trip_distance |-> 12, fare_amount |-> 125, tolls_amount |-> 0,
      pickup_longitude |-> -739, pickup_latitude |-> 407,
      dropoff_longitude |-> -740, dropoff_latitude |-> 408] :
        i \in {1, 2}, h \in {9, 10}, c \in {0, 1}}

\* the fingerprints the taxi keys may have
TaxiFpValues == {FpMin, 0, 1, -141, 171}

\* CAST(pickup_datetime AS STRING)
TaxiHashKey(r) == CastTimestamp(r.pickup_datetime)

\* the conditions of basequery's WHERE clause that do not use the fingerprint
TaxiWhere(r) ==
    /\ r.trip_distance > 0
    /\ r.fare_amount >= 25
    /\ r.pickup_longitude > -780
    /\ r.pickup_longitude < -700
    /\ r.dropoff_longitude > -780
    /\ r.dropoff_longitude < -700
    /\ r.pickup_latitude > 370
    /\ r.pickup_latitude < 450
    /\ r.dropoff_latitude > 370
    /\ r.dropoff_latitude < 450
    /\ r.passenger_count > 0

\* the sample sizes preprocess is called with: the text of an integer, or a product
SampleSizes == {StrNat(n) : n \in 1..MaxSampleSize} \cup {<<"1", "*", "2">>}

\* the rows the query of a phase returns, with fingerprints f
TaxiPhaseRows(f, phase, sample_size) ==
    {r \in table :
        /\ TaxiWhere(r)
        /\ SampleAccepts(create_query(phase, sample_size), Abs(f[TaxiHashKey(r)]))
        /\ PhaseAccepts(create_query(phase, sample_size), Abs(f[TaxiHashKey(r)]))}

TaxiInsert ==
    /\ dataset \in {"none", "taxi"}
    /\ last = NoRun
    /\ Cardinal(table) < MaxTableRows
    /\ \E r \in TaxiTableRows \ table : table' = table \cup {r}
    /\ dataset' = "taxi"
    /\ UNCHANGED <<fp, prev, last>>
    /\ UNCHANGED <<csvVars, cellVars>>

\* the three reads of preprocess(EVERY_N, RUNNER)
TaxiPreprocessQueries ==
    /\ dataset = "taxi"
    /\ \E sample_size \in SampleSizes :
       LET data == {r \in table : TaxiWhere(r)}
       IN  \E f \in FingerprintsAfter({TaxiHashKey(r) : r \in data}, TaxiFpValues) :
             /\ fp' = f
             /\ IF \E r \in data : AbsOverflows(f[TaxiHashKey(r)])
                THEN Record([q |-> "taxi", test |-> FALSE, n |-> sample_size, err |-> TRUE,
                             out |-> [TRAIN |-> {}, VALID |-> {}, TEST |-> {}]])
                ELSE Record([q |-> "taxi", test |-> FALSE, n |-> sample_size, err |-> FALSE,
                             out |-> [TRAIN |-> TaxiPhaseRows(f, "TRAIN", sample_size),
                                      VALID |-> TaxiPhaseRows(f, "VALID", sample_size),
                                      TEST |-> TaxiPhaseRows(f, "TEST", sample_size)]])
    /\ UNCHANGED <<dataset, table>>
    /\ UNCHANGED <<csvVars, cellVars>>

\* --------------------------------------------------- preprocess and the cells

\* one split of the natality pipeline, with an extra stage when the query is limited
NatStagesBranching(step, query, output_dir) ==
    <<[label |-> step \o "_read", transform |-> "Read(BigQuerySource)", with |-> query],
      [label |-> step \o "_csv", transform |-> "FlatMap", with |-> <<"to_csv">>]>>
    \o (IF query[1] = "LIMIT 100"
        THEN <<[label |-> step \o "_head", transform |-> "Filter", with |-> <<"head">>]>>
        ELSE <<>>)
    \o <<[label |-> step \o "_out", transform |-> "Write(WriteToText)",
          with |-> <<output_dir, step \o ".csv">>]>>

\* one split of the natality pipeline: p | read | FlatMap(to_csv) | write
NatStages(step, query, output_dir) ==
    <<[label |-> step \o "_read", transform |-> "Read(BigQuerySource)", with |-> query],
      [label |-> step \o "_csv", transform |-> "FlatMap", with |-> <<"to_csv">>],
      [label |-> step \o "_out", transform |-> "Write(WriteToText)",
       with |-> <<output_dir, step \o ".csv">>]>>

\* selquery of a step: the limit of the inner query and the hashmonth condition
NatSelQuery(step, in_test_mode) ==
    <<IF in_test_mode THEN "LIMIT 100" ELSE "no limit",
      IF step = "train" THEN "MOD(hashmonth, 100) < 80"
      ELSE IF step = "eval" THEN "MOD(hashmonth, 100) >= 80 AND MOD(hashmonth, 100) < 90"
      ELSE "MOD(hashmonth, 100) >= 90">>

NatOutputDir(in_test_mode) ==
    IF in_test_mode THEN "./preproc" ELSE "gs://BUCKET/babyweight/preproc/"

\* RUNNER set without looking at in_test_mode
NatRunnerDataflow(in_test_mode) == "DataflowRunner"

\* if in_test_mode: RUNNER = "DirectRunner" else: RUNNER = "DataflowRunner"
NatRunner(in_test_mode) == IF in_test_mode THEN "DirectRunner" ELSE "DataflowRunner"

\* for step in ["train", "eval"]: the pipeline preprocess(in_test_mode) builds
NatPipeline(in_test_mode) ==
    [step \in {"train", "eval"} |->
        NatStages(step, NatSelQuery(step, in_test_mode), NatOutputDir(in_test_mode))]

TaxiOutputDir == "gs://BUCKET/taxifare/ch4/taxi_preproc/"

\* one split of the taxi pipeline: the three labelled stages (read from BigQuery,
\* to_csv, write to a file), whose transforms the exercise leaves to fill in
TaxiStages(phase, sample_size, outfile) ==
    <<[label |-> "read_" \o phase, transform |-> "Read(BigQuerySource)",
       with |-> <<"create_query", phase>>],
      [label |-> "tocsv_" \o phase, transform |-> "Map", with |-> <<"to_csv">>],
      [label |-> "write_" \o phase, transform |-> "Write(WriteToText)", with |-> outfile]>>

\* for phase in ["TRAIN", "VALID", "TEST"]
TaxiPipeline(sample_size) ==
    [phase \in {"TRAIN", "VALID", "TEST"} |->
        TaxiStages(phase, sample_size, <<TaxiOutputDir, phase \o ".csv">>)]

NoJob == [runner |-> "none", dir |-> "none", limited |-> FALSE, state |-> "none"]

NoCall == [cell |-> "none", failed |-> {}, raised |-> {}, printed |-> <<>>]

NoDir == [exists |-> FALSE, files |-> {}]

NatFiles == {"train.csv", "eval.csv"}
TaxiFiles == {"TRAIN.csv", "VALID.csv", "TEST.csv"}

InitCells ==
    /\ localDir = NoDir
    /\ gcsNat = {}
    /\ gcsTaxi = {}
    /\ datasets = {}
    /\ pipeline = <<>>
    /\ job = NoJob
    /\ call = NoCall

\* job = p.run() with no wait at all, and the message printed in test mode
NatAfterRunNoWait(in_test_mode, run) ==
    [state |-> "RUNNING", printed |-> IF in_test_mode THEN <<"Done!">> ELSE <<>>,
     raised |-> {}]

\* job = p.run(); job.wait_until_finish(); print("Done!") in both modes
NatAfterRunWaits(in_test_mode, run) ==
    IF run = "ok" THEN [state |-> "DONE", printed |-> <<"Done!">>, raised |-> {}]
    ELSE [state |-> "FAILED", printed |-> <<>>, raised |-> {<<"job", run>>}]

\* job = p.run(); if in_test_mode: job.wait_until_finish(); print("Done!")
\* the state of the job when preprocess returns, what it printed and raised
NatAfterRun(in_test_mode, run) ==
    IF run = "SubmitError"
    THEN [state |-> "none", printed |-> <<>>, raised |-> {<<"p.run", run>>}]
    ELSE IF in_test_mode
    THEN IF run = "ok"
         THEN [state |-> "DONE", printed |-> <<"Done!">>, raised |-> {}]
         ELSE [state |-> "FAILED", printed |-> <<>>, raised |-> {<<"job", run>>}]
    ELSE [state |-> "RUNNING", printed |-> <<>>, raised |-> {}]

\* preprocess(in_test_mode = True): clear ./preproc, build, run and wait
NatPreprocessLocal ==
    /\ \E rmtree \in {"ok", "PermissionError"}, run \in {"ok", "JobFailed"} :
           LET dirAfter == IF rmtree = "ok" THEN NoDir ELSE localDir
               ignored == IF localDir.exists /\ rmtree # "ok"
                          THEN {<<"shutil.rmtree", rmtree>>} ELSE {}
               launch == <<"Launching local job ... hang on">>
               after == NatAfterRun(TRUE, run)
           IN  IF dirAfter.exists
               THEN \* os.makedirs raises: the directory is still there
                    /\ call' = [cell |-> "preprocess(True)",
                                failed |-> ignored \cup {<<"os.makedirs", "FileExistsError">>},
                                raised |-> {<<"os.makedirs", "FileExistsError">>},
                                printed |-> launch]
                    /\ UNCHANGED <<localDir, pipeline, job>>
               ELSE /\ pipeline' = NatPipeline(TRUE)
                    /\ localDir' = [exists |-> TRUE,
                                    files |-> IF after.state = "DONE" THEN NatFiles ELSE {}]
                    /\ job' = [runner |-> NatRunner(TRUE), dir |-> NatOutputDir(TRUE),
                               limited |-> TRUE, state |-> after.state]
                    /\ call' = [cell |-> "preprocess(True)",
                                failed |-> ignored \cup after.raised,
                                raised |-> after.raised,
                                printed |-> launch \o after.printed]
    /\ UNCHANGED <<gcsNat, gcsTaxi, datasets>>
    /\ UNCHANGED <<csvVars, splitVars>>

\* preprocess(in_test_mode = False): gsutil rm of the old output, build, submit
NatPreprocessCloud ==
    /\ \E rm \in {"ok", "NoURLsMatched", "AccessDenied"}, submit \in {"ok", "SubmitError"} :
           /\ (rm = "ok") => gcsNat # {}
           /\ (rm = "NoURLsMatched") => gcsNat = {}
           /\ LET swallowed == IF rm = "ok" THEN {} ELSE {<<"gsutil rm", rm>>}
                  launch == <<"Launching Dataflow job ... hang on">>
                  after == NatAfterRun(FALSE, submit)
              IN  /\ gcsNat' = IF rm = "ok" THEN {} ELSE gcsNat
                  /\ pipeline' = NatPipeline(FALSE)
                  /\ job' = IF after.state = "none" THEN NoJob
                            ELSE [runner |-> NatRunner(FALSE), dir |-> NatOutputDir(FALSE),
                                  limited |-> FALSE, state |-> after.state]
                  /\ call' = [cell |-> "preprocess(False)",
                              failed |-> swallowed \cup after.raised,
                              raised |-> after.raised,
                              printed |-> launch \o after.printed]
    /\ UNCHANGED <<localDir, gcsTaxi, datasets>>
    /\ UNCHANGED <<csvVars, splitVars>>

\* the Dataflow service finishes the submitted job and writes the files
DataflowJobDone ==
    /\ job.state = "RUNNING"
    /\ job' = [job EXCEPT !.state = "DONE"]
    /\ gcsNat' = gcsNat \cup NatFiles
    /\ UNCHANGED <<localDir, gcsTaxi, datasets, pipeline, call>>
    /\ UNCHANGED <<csvVars, splitVars>>

\* the Dataflow service gives the submitted job up
DataflowJobFailed ==
    /\ job.state = "RUNNING"
    /\ job' = [job EXCEPT !.state = "FAILED"]
    /\ UNCHANGED <<localDir, gcsNat, gcsTaxi, datasets, pipeline, call>>
    /\ UNCHANGED <<csvVars, splitVars>>

\* preprocess(EVERY_N, RUNNER): the with block runs the pipeline and waits for it
TaxiPreprocess ==
    /\ \E sample_size \in SampleSizes, RUNNER \in {"DirectRunner", "DataflowRunner"},
          run \in {"ok", "JobFailed"} :
           LET launch == <<"Launching Dataflow job ... hang on">>
           IN  /\ pipeline' = TaxiPipeline(sample_size)
               /\ IF run = "ok"
                  THEN /\ gcsTaxi' = gcsTaxi \cup TaxiFiles
                       /\ job' = [runner |-> RUNNER, dir |-> TaxiOutputDir, limited |-> FALSE,
                                  state |-> "DONE"]
                       /\ call' = [cell |-> "preprocess(EVERY_N, RUNNER)", failed |-> {},
                                   raised |-> {}, printed |-> launch \o <<"Done">>]
                  ELSE /\ gcsTaxi' = gcsTaxi
                       /\ job' = [runner |-> RUNNER, dir |-> TaxiOutputDir, limited |-> FALSE,
                                  state |-> "FAILED"]
                       /\ call' = [cell |-> "preprocess(EVERY_N, RUNNER)",
                                   failed |-> {<<"job", run>>}, raised |-> {<<"job", run>>},
                                   printed |-> launch]
    /\ UNCHANGED <<localDir, gcsNat, datasets>>
    /\ UNCHANGED <<csvVars, splitVars>>

\* object names are paths: the bucket, then the components under it
NatPrefix == <<"BUCKET", "babyweight", "preproc">>
TaxiPrefix == <<"BUCKET", "taxifare", "ch4", "taxi_preproc">>

\* !gsutil ls gs://$BUCKET/babyweight/preproc/*-00000*: the first shard of each output
\* file, or gsutil's complaint when the wildcard matches nothing; the cell runs
\* whatever the state of the job is, and a failing ! command raises nothing
ListNatOutput ==
    /\ call' = [cell |-> "gsutil ls preproc",
                failed |-> IF gcsNat = {} THEN {<<"gsutil ls", "NoURLsMatched">>} ELSE {},
                raised |-> {},
                printed |-> IF gcsNat = {}
                            THEN <<"CommandException: One or more URLs matched no objects.">>
                            ELSE SelectSeq(<<"train.csv", "eval.csv">>,
                                           LAMBDA f : f \in gcsNat)]
    /\ UNCHANGED <<localDir, gcsNat, gcsTaxi, datasets, pipeline, job>>
    /\ UNCHANGED <<csvVars, splitVars>>

\* gsutil ls without a URL: one line per bucket of the project
GsutilLs == {<<"BUCKET">>}

\* gsutil ls -r gs://${BUCKET}: one line per object of the bucket
GsutilLsR ==
    {NatPrefix \o <<f>> : f \in gcsNat} \cup {TaxiPrefix \o <<f>> : f \in gcsTaxi}

\* grep -q gs://<pattern>/ on lines that each start with gs://: some line goes on
\* from the pattern
Grep(lines, pattern) ==
    \E l \in lines : Len(pattern) <= Len(l) /\ SubSeq(l, 1, Len(pattern)) = pattern

\* %%bash if <listing> | grep -q <taxi_preproc>; then gsutil -m rm -rf <taxi_preproc>; fi
\* the cell raises when its last command, the rm, exits non-zero
TaxiCleanupCell(cell, listing) ==
    /\ \E rm \in {"ok", "AccessDenied"} :
           IF ~Grep(listing, TaxiPrefix)
           THEN /\ gcsTaxi' = gcsTaxi
                /\ call' = [cell |-> cell, failed |-> {}, raised |-> {}, printed |-> <<>>]
           ELSE /\ gcsTaxi' = IF rm = "ok" THEN {} ELSE gcsTaxi
                /\ call' = [cell |-> cell,
                            failed |-> IF rm = "ok" THEN {} ELSE {<<"gsutil rm", rm>>},
                            raised |-> IF rm = "ok" THEN {} ELSE {<<"gsutil rm", rm>>},
                            printed |-> <<>>]
    /\ UNCHANGED <<localDir, gcsNat, datasets, pipeline, job>>
    /\ UNCHANGED <<csvVars, splitVars>>

\* the cleanup cell before the local run: it greps the list of buckets
TaxiCleanupBeforeLocal == TaxiCleanupCell("cleanup (gsutil ls)", GsutilLs)

\* the cleanup cell before the cloud run: it greps the recursive listing
TaxiCleanupBeforeCloud == TaxiCleanupCell("cleanup (gsutil ls -r)", GsutilLsR)

\* the outcomes of client.create_dataset: created, or an exception of the API
CreateOutcomes(name) ==
    IF name \in datasets THEN {"Conflict", "Forbidden"} ELSE {"ok", "Forbidden"}

\* try: create_dataset ... except: print(... already exists)
CreateDatasetCell(cell, name, created, exists) ==
    /\ \E outcome \in CreateOutcomes(name) :
           /\ datasets' = IF outcome = "ok" THEN datasets \cup {name} ELSE datasets
           /\ call' = [cell |-> cell,
                       failed |-> IF outcome = "ok" THEN {} ELSE {<<"create_dataset", outcome>>},
                       raised |-> {},
                       printed |-> IF outcome = "ok" THEN <<created>> ELSE <<exists>>]
    /\ UNCHANGED <<localDir, gcsNat, gcsTaxi, pipeline, job>>
    /\ UNCHANGED <<csvVars, splitVars>>

\* the cell that creates temp_babyweight_dataset
CreateBabyweightDataset ==
    CreateDatasetCell("create temp_babyweight_dataset", "temp_babyweight_dataset",
                      "Created dataset", "Dataset already exists")

\* the cell that creates bqml_taxifare
CreateTaxifareDataset ==
    CreateDatasetCell("create bqml_taxifare", "bqml_taxifare",
                      "Dataset created", "Dataset already exists")

vars == <<csvVars, splitVars, cellVars>>

Init == InitCsv /\ InitSplit /\ InitCells

SpecCsv == Init /\ [][NextCsv]_vars

NextSplit ==
    \/ NatInsert
    \/ BqmlTrainingQuery
    \/ NatPreprocessQueries
    \/ TaxiInsert
    \/ TaxiPreprocessQueries

SpecSplit == Init /\ [][NextSplit]_vars

NextCells ==
    \/ NatPreprocessLocal
    \/ NatPreprocessCloud
    \/ DataflowJobDone
    \/ DataflowJobFailed
    \/ TaxiPreprocess
    \/ CreateBabyweightDataset
    \/ CreateTaxifareDataset
    \/ ListNatOutput
    \/ TaxiCleanupBeforeLocal
    \/ TaxiCleanupBeforeCloud

SpecCells == Init /\ [][NextCells]_vars

\* ------------------------------------------------ claims on the to_csv functions

Called == rowdict # 0 /\ calls > 0

CsvColumnsOf(k) == IF k = "nat" THEN NatCsvColumns ELSE TaxiCsvColumns

\* C2 (as claimed): to_csv is total: called on a row that carries all of its columns
\* (a natality row with any integer plurality, a taxi row with its seven columns), it
\* produces its lines and raises no error.
C2_ToCsvTotal ==
    (Called /\ HasColumns(arg, CsvColumnsOf(kind))) => result.err = "none"

\* C3: to_csv is pure: after a call the dictionary it was given holds exactly the keys
\* and values the reader produced, and a second call on the same element produces the
\* same lines (or the same error) as the first.
C3_ToCsvPure ==
    Called => /\ heap[rowdict] = arg
              /\ calls >= 2 => result = first

\* a natality row went through to_csv twice and both of its lines were produced
C3_Witness ==
    /\ kind = "nat"
    /\ calls = 2
    /\ result.err = "none"
    /\ Len(result.lines) = 2
    /\ \E r \in DOMAIN heap : heap[r] # arg

\* C4 (as claimed): the natality to_csv yields exactly two lines for every input row
\* the query can return (all columns present, plurality > 0), the no-ultrasound line
\* (is_male Unknown) first and the ultrasound line (is_male as read) second.
C4_TwoLinesPerRow ==
    (Called /\ kind = "nat" /\ HasColumns(arg, NatCsvColumns) /\ arg["plurality"].n > 0) =>
        /\ Len(result.lines) = 2
        /\ Split(result.lines[1], ",")[2] = Unknown
        /\ Split(result.lines[2], ",")[2] = Str(arg["is_male"])

\* C10: the taxi to_csv returns one string of exactly seven comma-separated fields, the
\* string forms of fare_amount, dayofweek, hourofday, pickuplon, pickuplat, dropofflon,
\* dropofflat in that order; other keys of the row do not appear.
C10_TaxiSevenFields ==
    (Called /\ kind = "taxi"
        /\ {"fare_amount", "dayofweek", "hourofday", "pickuplon", "pickuplat",
            "dropofflon", "dropofflat"} \subseteq DOMAIN arg) =>
        /\ result.err = "none"
        /\ Len(result.lines) = 1
        /\ Split(result.lines[1], ",") =
              <<Str(arg["fare_amount"]), Str(arg["dayofweek"]), Str(arg["hourofday"]),
                Str(arg["pickuplon"]), Str(arg["pickuplat"]), Str(arg["dropofflon"]),
                Str(arg["dropofflat"])>>

\* a taxi row with a key outside the seven columns went through to_csv
C10_Witness ==
    /\ Called
    /\ kind = "taxi"
    /\ "passenger_count" \in DOMAIN arg
    /\ result.err = "none"
    /\ Len(result.lines) = 1

\* the columns of CSV_COLUMNS (by position) that the row lacks
AbsentColumns == {i \in 1..Len(NatCsvColumns) : NatCsvColumns[i] \notin DOMAIN arg}

\* C15 (as claimed): every line the natality to_csv yields has exactly five fields, in
\* the order weight_pounds, is_male, mother_age, plurality, gestation_weeks, and no
\* field for hashmonth; for a row that lacks one of the five columns no error is
\* raised and the field of that column is "None" in both lines, whichever column it is.
C15_FiveFieldsNoneForAbsent ==
    (Called /\ kind = "nat") =>
        /\ \A j \in 1..Len(result.lines) :
               LET fields == Split(result.lines[j], ",")
               IN  /\ Len(fields) = 5
                   /\ \A i \in {1, 3, 5} \ AbsentColumns :
                          fields[i] = Str(arg[NatCsvColumns[i]])
        /\ Cardinality(AbsentColumns) = 1 =>
               /\ result.err = "none"
               /\ Len(result.lines) = 2
               /\ \A i \in AbsentColumns : \A j \in 1..2 :
                      Split(result.lines[j], ",")[i] = <<"N", "o", "n", "e">>

\* ------------------------------------------------ claims on the splits and samples

SameMonth(a, b) == a.year = b.year /\ a.month = b.month

\* the rows a run's query keeps before the hash is looked at
DataOf(run) ==
    CASE run.q = "bqml" -> {r \in table : BqmlWhere(r)}
      [] run.q = "nat" -> {r \in table : NatWhere(r)}
      [] OTHER -> {r \in table : TaxiWhere(r)}

\* how many of the hash values lo..hi the predicate accepts
Accepted(P(_), lo, hi) == Cardinal({h \in lo..hi : P(h)})

\* C1: no leakage across the hashmonth splits (MOD 4 < 3 of the BQML training query;
\* MOD 100 < 80 and 80 <= MOD 100 < 90 of preprocess): two natality rows with the same
\* year and month are never in two different sets, and a query without LIMIT puts
\* them on the same side.
C1_NoLeakage ==
    last.q \in {"bqml", "nat"} =>
        \A a, b \in table : SameMonth(a, b) =>
            /\ \A s1, s2 \in DOMAIN last.out :
                   (a \in last.out[s1] /\ b \in last.out[s2]) => s1 = s2
            /\ (~last.test /\ a \in DataOf(last) /\ b \in DataOf(last)) =>
                   \A s \in DOMAIN last.out : a \in last.out[s] <=> b \in last.out[s]

\* two rows of one month were split by the preprocess queries into the same set
C1_Witness ==
    /\ last.q = "nat"
    /\ ~last.err
    /\ \E a, b \in table : a # b /\ SameMonth(a, b) /\ {a, b} \subseteq last.out["eval"]

SameQuery(r1, r2) == r1.q # "none" /\ r1.q = r2.q /\ r1.n = r2.n

\* C7 (as claimed): two runs of a split with the same arguments over the same data
\* assign every row to the same set.
C7_SameSetsEveryRun ==
    (SameQuery(prev, last) /\ prev.test = last.test) => prev.out = last.out

\* C7 (amended): two runs of a split over the same data never assign a row to two
\* different sets, and with the same arguments they assign every row to the same
\* set, unless the run is the natality preprocess in test mode (LIMIT, no ORDER BY).
C7_Repeatable ==
    SameQuery(prev, last) =>
        /\ \A r \in table : \A s1, s2 \in DOMAIN last.out :
               (r \in prev.out[s1] /\ r \in last.out[s2]) => s1 = s2
        /\ (~prev.test /\ ~last.test) => prev = last

\* the taxi queries ran twice with one sample size and put a row in TRAIN
C7_Witness ==
    /\ SameQuery(prev, last)
    /\ last.q = "taxi"
    /\ last.out["TRAIN"] # {}

\* the sampling condition of the query preprocess builds for the last run
LastSample(h) == SampleAccepts(create_query("TRAIN", last.n), h)

\* the sampling condition for the integer sample size m
SampleOf(m, h) == SampleAccepts(create_query("TRAIN", StrNat(m)), h)

\* C8 (as claimed): with the integer N >= 1 as sample size, MOD(fingerprint, N) = 1
\* accepts exactly one of every N consecutive non-negative values, and accepts no
\* more of the values 0..k than a smaller sample size does.
C8_OneOfEveryN ==
    last.q = "taxi" =>
        /\ \A b \in 0..WindowBases : Accepted(LastSample, b, b + Eval(last.n) - 1) = 1
        /\ \A m \in 1..Eval(last.n) : \A k \in 0..WindowBases :
               Cardinal({h \in 0..k : LastSample(h)}) <= Cardinal({h \in 0..k : SampleOf(m, h)})

C5_FailuresSurface ==
    /\ call.failed \subseteq call.raised
    /\ (Len(call.printed) > 0 /\ call.printed[Len(call.printed)] = "Dataset already exists")
           => call.failed = {<<"create_dataset", "Conflict">>}

DonePrinted == \E i \in 1..Len(call.printed) : call.printed[i] \in {"Done", "Done!"}

\* C11: "Done" is printed only when the pipeline has finished: after the taxi preprocess
\* and after the natality preprocess in test mode, the completion message has been
\* printed only if the job is done and nothing was raised, never with the job failed
\* or still running.
C11_DoneOnlyWhenFinished ==
    (call.cell \in {"preprocess(True)", "preprocess(EVERY_N, RUNNER)"} /\ DonePrinted) =>
        /\ job.state = "DONE"
        /\ call.raised = {}

\* the local natality job ran to its end and the message was printed
C11_Witness ==
    /\ call.cell = "preprocess(True)"
    /\ DonePrinted
    /\ job.state = "DONE"
    /\ localDir.files = NatFiles

\* C12: preprocess(in_test_mode = False) returns at submission: whenever the call
\* returns without raising, the job is still running, no completion message has been
\* printed and the call has written no output file; the listing cell is not held back,
\* so it can run while the job runs and before any output exists.
C12_ReturnsAtSubmission ==
    [][(NatPreprocessCloud /\ call'.raised = {}) =>
           /\ job'.state = "RUNNING"
           /\ ~DonePrinted'
           /\ gcsNat' \subseteq gcsNat]_vars

\* the listing cell ran while the submitted job was running and found no output
C12_Witness ==
    /\ call.cell = "gsutil ls preproc"
    /\ job.runner = "DataflowRunner"
    /\ job.state = "RUNNING"
    /\ gcsNat = {}
    /\ call.failed = {<<"gsutil ls", "NoURLsMatched">>}

\* C13: in_test_mode selects runner, output directory and limit together: a natality
\* job has the DirectRunner, ./preproc and the LIMIT 100 query exactly when preprocess
\* was called in test mode, and the DataflowRunner, gs://BUCKET/babyweight/preproc/
\* and the unlimited query exactly when it was not.
C13_ModeSelectsAll ==
    (job.state # "none" /\ DOMAIN pipeline = {"train", "eval"}) =>
        LET local == job.runner = "DirectRunner"
        IN  /\ job.runner \in {"DirectRunner", "DataflowRunner"}
            /\ local <=> job.dir = "./preproc"
            /\ ~local <=> job.dir = "gs://BUCKET/babyweight/preproc/"
            /\ \A step \in DOMAIN pipeline :
                   /\ local <=> pipeline[step][1].with[1] = "LIMIT 100"
                   /\ ~local <=> pipeline[step][1].with[1] = "no limit"
                   /\ pipeline[step][3].with[1] = job.dir
            /\ (call.cell = "preprocess(True)" /\ call.raised = {}) => local
            /\ (call.cell = "preprocess(False)" /\ call.raised = {}) => ~local

\* preprocess was called with in_test_mode false and submitted the cloud job
C13_Witness ==
    /\ call.cell = "preprocess(False)"
    /\ call.raised = {}
    /\ job.runner = "DataflowRunner"
    /\ pipeline["eval"][1].with[1] = "no limit"
    /\ pipeline["eval"][3].with[1] = "gs://BUCKET/babyweight/preproc/"

\* C14 (as claimed): after either cleanup cell of the taxi notebook has finished,
\* gs://BUCKET/taxifare/ch4/taxi_preproc/ holds no object, whether it was empty or held
\* the files of an earlier run before.
C14_CleanupEmpties ==
    (call.cell \in {"cleanup (gsutil ls)", "cleanup (gsutil ls -r)"} /\ call.raised = {}) =>
        gcsTaxi = {}

====
